---------------------------- MODULE Spec2Model ----------------------------
(***************************************************************************)
(* Model of pybullet_planning/motion_planners/rrt_connect.py:              *)
(* asymmetric_extend, extend_towards, rrt_connect, direct_path and birrt.  *)
(*                                                                         *)
(* Configurations are points of a 1-D line 0..hi.  The four capability     *)
(* functions are the ones of the specification's concrete scenario:        *)
(* distance |a-b|, an extend_fn that steps by a fixed step toward its      *)
(* second argument (excluding the first argument, ending with the second), *)
(* a collision_fn that is true on a set of blocked points, and a sample_fn *)
(* that either cycles through a fixed sequence or returns any point.       *)
(* Tree nodes are records [config, parent]; parent is the index of the     *)
(* parent node in the same tree, 0 for a root (parent=None).               *)
(***************************************************************************)
EXTENDS Integers, Sequences, FiniteSets

VARIABLES
    env,        \* the capability functions: [hi, step, blocked, cyclic]
    entry,      \* the function the caller invoked
    args,       \* its arguments
    pc,         \* position in the code
    now,        \* the wall clock, time.time()
    nodes1,     \* rrt_connect: tree rooted at q1
    nodes2,     \* rrt_connect: tree rooted at q2
    iteration,  \* rrt_connect: loop variable (iterations completed)
    swap,       \* rrt_connect: swap of the current iteration
    last1,      \* rrt_connect: index in tree1 of the node the exploration returned
    rStart,     \* rrt_connect: start_time
    rMaxTime,   \* rrt_connect: max_time parameter of the running call
    bStart,     \* birrt: start_time
    attempt,    \* birrt: loop variable
    path,       \* birrt: local variable path
    result,     \* what the entry point returned
    calls,      \* calls of each collaborator so far (a count, or whether any)
    smoothArg,  \* the path handed to smooth_path (history)
    validated,  \* rrt_connect: steps (a, b) of the extensions computed and found
                \* collision-free by the running search (history)
    grow1,      \* rrt_connect: the exploration call of extend_towards made by
                \* the latest iteration, its arguments and results (history)
    grow2,      \* rrt_connect: the connect call of the same iteration (history)
    samples     \* rrt_connect: the values sample_fn has returned to the running
                \* call, in order (history)

vars == <<env, entry, args, pc, now, nodes1, nodes2, iteration, swap, last1,
          rStart, rMaxTime, bStart, attempt, path, result, calls, smoothArg, validated,
          grow1, grow2, samples>>

---------------------------------------------------------------------------
\* Bounds of the model.
MaxConf == 3        \* the generic configuration space is 0..MaxConf
MaxIter == 2        \* largest value of `iterations`
MaxFreq == 2        \* largest value of `tree_frequency`
MaxRestarts == 1    \* largest value of `restarts`
MaxClock == 1       \* the clock takes the values 0..MaxClock

\* utils.INF (the default of max_time): larger than every clock reading.
INF == 1000

Steps == {1, 2}

\* The scenario of the specification: [0,10], unit steps, [4,6] blocked,
\* samples cycling through 2, 8, 3, 7.
SampleCycle == <<2, 8, 3, 7>>
ScenarioEnv == [hi |-> 10, step |-> 1, blocked |-> 4..6, cyclic |-> TRUE]
ScenarioIterations == 2 * Len(SampleCycle)

---------------------------------------------------------------------------
\* Return values.
None == [kind |-> "None", path |-> <<>>]
Running == [kind |-> "running", path |-> <<>>]
AssertionError == [kind |-> "AssertionError", path |-> <<>>]
PathOf(p) == [kind |-> "path", path |-> p]

Abs(x) == IF x < 0 THEN -x ELSE x

Reverse(s) == [i \in 1..Len(s) |-> s[Len(s) + 1 - i]]

\* ---- capability functions (supplied by the caller) ----

distance_fn(a, b) == Abs(a - b)

collision_fn(q) == q \in env.blocked

\* extend_fn(q1, q2) -> [q', ..., q2]: steps of env.step from q1 toward q2,
\* without q1, the last step cut short so that the sequence ends at q2.
extend_fn(a, b) ==
    LET d == Abs(b - a)
        n == (d + env.step - 1) \div env.step
        sgn == IF b >= a THEN 1 ELSE -1
    IN  [k \in 1..n |-> IF k = n THEN b ELSE a + sgn * k * env.step]

\* the values the next call of sample_fn() may return
sample_fn ==
    IF env.cyclic
    THEN {SampleCycle[(calls.sample % Len(SampleCycle)) + 1]}
    ELSE 0..env.hi

\* ---- rrt.TreeNode ----

TreeNode(q, p) == [config |-> q, parent |-> p]

RECURSIVE retrace(_, _)
\* TreeNode.retrace: the nodes (here: their configurations) from the root to node i
retrace(tree, i) ==
    IF tree[i].parent = 0
    THEN <<tree[i].config>>
    ELSE Append(retrace(tree, tree[i].parent), tree[i].config)

\* utils.argmin: the first element of the tree with the smallest score
argmin(tree, target) ==
    LET best == CHOOSE i \in 1..Len(tree) :
                    /\ \A j \in 1..Len(tree) :
                          distance_fn(tree[i].config, target) <= distance_fn(tree[j].config, target)
                    /\ \A j \in 1..(i - 1) :
                          distance_fn(tree[j].config, target) > distance_fn(tree[i].config, target)
    IN  best

\* ---- rrt_connect.py ----

asymmetric_extend(q1, q2, backward) ==
    IF backward THEN Reverse(extend_fn(q2, q1)) ELSE extend_fn(q1, q2)

\* mutant of Safe: the extension is not cut at the first collision
Safe_NoCut(extend) == extend

\* list(takewhile(negate(collision_fn), extend))
Safe(extend) ==
    LET bad == {i \in 1..Len(extend) : collision_fn(extend[i])}
        n == IF bad = {} THEN Len(extend)
             ELSE (CHOOSE i \in bad : \A j \in bad : i <= j) - 1
    IN  SubSeq(extend, 1, n)

\* mutant of Inserted: the last safe configuration gets no node of its own
Inserted_NoLast(i, n, tree_frequency) == i % tree_frequency = 0

\* the condition of line 26 (i counts from 0)
Inserted(i, n, tree_frequency) == (i % tree_frequency = 0) \/ (i = n - 1)

RECURSIVE InsertLoop_NoParent(_, _, _, _, _)
\* mutant of InsertLoop: the new nodes are created without a parent
InsertLoop_NoParent(tree, last, safe, i, tree_frequency) ==
    IF i >= Len(safe)
    THEN [tree |-> tree, last |-> last]
    ELSE IF Inserted(i, Len(safe), tree_frequency)
         THEN InsertLoop_NoParent(Append(tree, TreeNode(safe[i + 1], 0)), Len(tree) + 1,
                                  safe, i + 1, tree_frequency)
         ELSE InsertLoop_NoParent(tree, last, safe, i + 1, tree_frequency)

RECURSIVE InsertLoop(_, _, _, _, _)
\* the loop of lines 25-28, from index i (counting from 0)
InsertLoop(tree, last, safe, i, tree_frequency) ==
    IF i >= Len(safe)
    THEN [tree |-> tree, last |-> last]
    ELSE IF Inserted(i, Len(safe), tree_frequency)
         THEN InsertLoop(Append(tree, TreeNode(safe[i + 1], last)), Len(tree) + 1,
                         safe, i + 1, tree_frequency)
         ELSE InsertLoop(tree, last, safe, i + 1, tree_frequency)

\* mutant of extend_towards: success is reported although the extension was cut
extend_towards_AlwaysSuccess(tree, target, backward, tree_frequency) ==
    LET near == argmin(tree, target)
        extend == asymmetric_extend(tree[near].config, target, backward)
        safe == Safe(extend)
        grown == InsertLoop(tree, near, safe, 0, tree_frequency)
    IN  [tree |-> grown.tree, last |-> grown.last, success |-> TRUE,
         near |-> near, extend |-> extend, safe |-> safe]

\* mutant of extend_towards: no success without a safe configuration
extend_towards_NeedsProgress(tree, target, backward, tree_frequency) ==
    LET near == argmin(tree, target)
        extend == asymmetric_extend(tree[near].config, target, backward)
        safe == Safe(extend)
        grown == InsertLoop(tree, near, safe, 0, tree_frequency)
    IN  [tree |-> grown.tree, last |-> grown.last,
         success |-> (Len(safe) > 0 /\ Len(extend) = Len(safe)),
         near |-> near, extend |-> extend, safe |-> safe]

extend_towards(tree, target, backward, tree_frequency) ==
    LET near == argmin(tree, target)
        extend == asymmetric_extend(tree[near].config, target, backward)
        safe == Safe(extend)
        grown == InsertLoop(tree, near, safe, 0, tree_frequency)
    IN  [tree |-> grown.tree, last |-> grown.last, success |-> (Len(extend) = Len(safe)),
         near |-> near, extend |-> extend, safe |-> safe]

\* mutant of InLoop: one iteration too many
InLoop_Inclusive(i, iterations) == i <= iterations

\* line 74: for iteration in irange(iterations) -- the loop body runs for
\* iteration = 0, ..., iterations - 1
InLoop(i, iterations) == i < iterations

\* mutant of Swap: the roles are exchanged on a tie as well
Swap_OnTie(n1, n2) == n1 >= n2

\* mutant of Swap: the roles are exchanged when the start tree is the smaller
Swap_Inverted(n1, n2) == n1 < n2

\* line 77: swap = len(nodes1) > len(nodes2)
Swap(n1, n2) == n1 > n2

\* no call of extend_towards recorded
NoGrow == [tree |-> <<>>, target |-> 0, backward |-> FALSE, near |-> 0,
           extend |-> <<>>, safe |-> <<>>, last |-> 0, success |-> FALSE]

\* the record of one call extend_towards(tree, target, ..., backward, ...)
\* that returned r: the arguments, the locals of lines 22-24 and the pair
\* returned at line 29
Growth(tree, target, backward, r) ==
    [tree |-> tree, target |-> target, backward |-> backward, near |-> r.near,
     extend |-> r.extend, safe |-> r.safe, last |-> r.last, success |-> r.success]

\* The history of the growth steps is kept for the calls of rrt_connect made
\* by the user; a call made by birrt runs the same code on the same arguments.
Recorded(g) == IF entry = "rrt_connect" THEN g ELSE NoGrow

\* configs(path1[:-1] + path2[::-1])
Junction(path1, path2) == SubSeq(path1, 1, Len(path1) - 1) \o Reverse(path2)

\* The values a reading of time.time() may give: the clock never runs
\* backwards.  Only differences of readings are used, so the first reading
\* of the entry point is taken as 0 (first = TRUE); and without a deadline
\* (max_time = INF) no comparison depends on the clock, which is then left
\* at 0.
Readings(first) ==
    IF first \/ args.max_time = INF THEN {now} ELSE now..MaxClock

\* mutant of Expired: < for <=
Expired_Strict(max_time, start_time, t) == max_time # INF /\ max_time < t - start_time

\* max_time <= elapsed_time(start_time), read at clock value t
Expired(max_time, start_time, t) == max_time # INF /\ max_time <= t - start_time

\* max_time - elapsed_time(start_time), read at clock value t
Remaining(max_time, start_time, t) ==
    IF max_time = INF THEN INF ELSE max_time - (t - start_time)

\* mutant of EndpointBlocked: only the start is checked
EndpointBlocked_StartOnly(q1, q2) == collision_fn(q1)

\* collision_fn(q1) or collision_fn(q2) (lines 71, 98, 146)
EndpointBlocked(q1, q2) == collision_fn(q1) \/ collision_fn(q2)

RECURSIVE DirectLoop_Skip(_, _, _)
\* mutant of DirectLoop: a colliding configuration is skipped (continue)
DirectLoop_Skip(p, extend, i) ==
    IF i > Len(extend) THEN PathOf(p)
    ELSE IF collision_fn(extend[i]) THEN DirectLoop_Skip(p, extend, i + 1)
    ELSE DirectLoop_Skip(Append(p, extend[i]), extend, i + 1)

RECURSIVE DirectLoop(_, _, _)
\* the loop of lines 101-105, from the i-th configuration of the extension
DirectLoop(p, extend, i) ==
    IF i > Len(extend) THEN PathOf(p)
    ELSE IF collision_fn(extend[i]) THEN None
    ELSE DirectLoop(Append(p, extend[i]), extend, i + 1)

\* the body of direct_path
direct_path(q1, q2) ==
    IF EndpointBlocked(q1, q2) THEN None
    ELSE DirectLoop(<<q1>>, extend_fn(q1, q2), 1)


\* smoothing.smooth_path: a black box that returns a refined path; here any
\* subsequence of the path that keeps its two ends.
Pick(p, keep) ==
    LET idx == {i \in 1..Len(p) : i \in keep}
        nth(k) == CHOOSE i \in idx : Cardinality({j \in idx : j < i}) = k - 1
    IN  [k \in 1..Cardinality(idx) |-> p[nth(k)]]

smooth_path(p) ==
    {Pick(p, inner \cup {1, Len(p)}) : inner \in SUBSET (2..(Len(p) - 1))}

---------------------------------------------------------------------------
\* Bookkeeping of the calls made to the collaborators.

\* sample_fn, extend_fn, smooth_path and rrt_connect are counted; of
\* distance_fn and collision_fn only whether they were called at all.
NoCalls == [sample |-> 0, extend |-> 0, smooth |-> 0, rrt_connect |-> 0,
            distance |-> FALSE, collision |-> FALSE]

\* one call of extend_towards: argmin calls distance_fn on every node, extend_fn
\* is called once, takewhile calls collision_fn unless the extension is empty
Grow(c, extend) ==
    [c EXCEPT !.distance = TRUE, !.extend = @ + 1, !.collision = @ \/ (Len(extend) > 0)]

\* The steps that one call of extend_towards has computed and found free of
\* collision, each in the direction start -> goal: the consecutive pairs of
\* <<a>> \o extend_fn(a, b) whose two ends are known to be collision-free.
CheckedSteps(r, tree, target, backward) ==
    LET a == IF backward THEN target ELSE tree[r.near].config
        b == IF backward THEN tree[r.near].config ELSE target
        chain == <<a>> \o extend_fn(a, b)
        free == {r.safe[i] : i \in 1..Len(r.safe)} \cup {tree[r.near].config}
                    \cup (IF backward THEN {target} ELSE {})
    IN  {<<chain[i], chain[i + 1]>> : i \in {j \in 1..(Len(chain) - 1) :
                                              chain[j] \in free /\ chain[j + 1] \in free}}

---------------------------------------------------------------------------
\* Initial states: a call of one entry point with its arguments.

Entries == {"direct_path", "rrt_connect", "birrt"}

GenericEnvs ==
    [hi : {MaxConf}, step : Steps, blocked : SUBSET (0..MaxConf), cyclic : {FALSE}]

MaxTimes == {0, MaxClock, INF}

\* Arguments an entry point does not take are left at a fixed value.  The
\* line, the obstacle sets and the samples are the same read from either
\* end, so a query with q1 > q2 is the mirror image of one with q1 < q2 and
\* only q1 <= q2 is enumerated.
GenericArgs(e) ==
    {a \in [q1 : 0..MaxConf, q2 : 0..MaxConf,
            iterations : IF e = "direct_path" THEN {0} ELSE {MaxIter},
            tree_frequency : IF e = "direct_path" THEN {1} ELSE 0..MaxFreq,
            max_time : IF e = "direct_path" THEN {INF} ELSE MaxTimes,
            restarts : IF e = "birrt" THEN 0..MaxRestarts ELSE {0},
            smooth : IF e = "birrt" THEN BOOLEAN ELSE {FALSE}] : a.q1 <= a.q2}

ScenarioArgs ==
    [q1 |-> 0, q2 |-> 10, iterations |-> ScenarioIterations, tree_frequency |-> 1,
     max_time |-> INF, restarts |-> 0, smooth |-> FALSE]

EntryPc(e) == CASE e = "direct_path" -> "d_enter"
                [] e = "rrt_connect" -> "r_enter"
                [] e = "birrt" -> "b_enter"

Init ==
    /\ entry \in Entries
    /\ \/ env \in GenericEnvs /\ args \in GenericArgs(entry)
       \/ env = ScenarioEnv /\ args = ScenarioArgs /\ entry # "birrt"
    /\ pc = EntryPc(entry)
    /\ now = 0
    /\ nodes1 = <<>>
    /\ nodes2 = <<>>
    /\ iteration = 0
    /\ swap = FALSE
    /\ last1 = 0
    /\ rStart = 0
    /\ rMaxTime = args.max_time
    /\ bStart = 0
    /\ attempt = 0
    /\ path = None
    /\ result = Running
    /\ calls = NoCalls
    /\ smoothArg = <<>>
    /\ validated = {}
    /\ grow1 = NoGrow
    /\ grow2 = NoGrow
    /\ samples = <<>>

---------------------------------------------------------------------------
\* direct_path called by the user (lines 97-105)

DirectPath ==
    /\ pc = "d_enter"
    /\ result' = direct_path(args.q1, args.q2)
    /\ pc' = "done"
    /\ calls' = [calls EXCEPT
          !.collision = TRUE,
          !.extend = @ + (IF EndpointBlocked(args.q1, args.q2) THEN 0 ELSE 1)]
    /\ UNCHANGED <<env, entry, args, now, nodes1, nodes2, iteration, swap, last1,
                   rStart, rMaxTime, bStart, attempt, path, smoothArg, validated,
                   grow1, grow2, samples>>

---------------------------------------------------------------------------
\* rrt_connect (lines 32-93), called by the user or by birrt

\* `return v` / `raise` of rrt_connect: to the user, or into birrt's variable path
RrtReturn(v) ==
    IF entry = "rrt_connect" \/ v = AssertionError
    THEN result' = v /\ pc' = "done" /\ path' = path
    ELSE path' = v /\ pc' = "b_after" /\ result' = result

\* lines 69-73
RrtEnter ==
    /\ pc = "r_enter"
    /\ \E t \in Readings(entry = "rrt_connect") :
          /\ now' = t
          /\ rStart' = t
    /\ IF ~(args.tree_frequency >= 1)
       THEN /\ RrtReturn(AssertionError)
            /\ nodes1' = <<>>
            /\ nodes2' = <<>>
            /\ UNCHANGED calls
       ELSE IF EndpointBlocked(args.q1, args.q2)
       THEN /\ RrtReturn(None)
            /\ nodes1' = <<>>
            /\ nodes2' = <<>>
            /\ calls' = [calls EXCEPT !.collision = TRUE]
       ELSE /\ nodes1' = <<TreeNode(args.q1, 0)>>
            /\ nodes2' = <<TreeNode(args.q2, 0)>>
            /\ pc' = "r_loop"
            /\ calls' = [calls EXCEPT !.collision = TRUE]
            /\ UNCHANGED <<path, result>>
    \* a new activation: its locals are not yet assigned
    /\ iteration' = 0
    /\ swap' = FALSE
    /\ last1' = 0
    /\ validated' = {}
    /\ grow1' = NoGrow
    /\ grow2' = NoGrow
    /\ samples' = <<>>
    /\ UNCHANGED <<env, entry, args, rMaxTime, bStart, attempt, smoothArg>>

\* line 74: irange(iterations) is exhausted; line 93
RrtExhausted ==
    /\ pc = "r_loop"
    /\ ~InLoop(iteration, args.iterations)
    /\ RrtReturn(None)
    /\ UNCHANGED <<env, entry, args, now, nodes1, nodes2, iteration, swap, last1,
                   rStart, rMaxTime, bStart, attempt, calls, smoothArg, validated,
                   grow1, grow2, samples>>

\* mutant of RrtTimeout: the loop is left whether or not the deadline has passed
RrtTimeout_Unconditional ==
    /\ pc = "r_loop"
    /\ InLoop(iteration, args.iterations)
    /\ \E t \in Readings(FALSE) : now' = t
    /\ RrtReturn(None)
    /\ UNCHANGED <<env, entry, args, nodes1, nodes2, iteration, swap, last1,
                   rStart, rMaxTime, bStart, attempt, calls, smoothArg, validated,
                   grow1, grow2, samples>>

\* lines 75-76: the deadline has passed; line 93
RrtTimeout ==
    /\ pc = "r_loop"
    /\ InLoop(iteration, args.iterations)
    /\ \E t \in Readings(FALSE) :
          /\ Expired(rMaxTime, rStart, t)
          /\ now' = t
    /\ RrtReturn(None)
    /\ UNCHANGED <<env, entry, args, nodes1, nodes2, iteration, swap, last1,
                   rStart, rMaxTime, bStart, attempt, calls, smoothArg, validated,
                   grow1, grow2, samples>>

\* lines 75-83: the deadline check passes, the roles are assigned and the
\* first tree grows toward a sample
RrtExplore ==
    /\ pc = "r_loop"
    /\ InLoop(iteration, args.iterations)
    /\ \E t \in Readings(FALSE) :
          /\ ~Expired(rMaxTime, rStart, t)
          /\ now' = t
    /\ swap' = Swap(Len(nodes1), Len(nodes2))
    /\ \E s \in sample_fn :
          LET tree1 == IF swap' THEN nodes2 ELSE nodes1
              r == extend_towards(tree1, s, swap', args.tree_frequency)
          IN  /\ nodes1' = IF swap' THEN nodes1 ELSE r.tree
              /\ nodes2' = IF swap' THEN r.tree ELSE nodes2
              /\ last1' = r.last
              /\ calls' = [Grow(calls, r.extend) EXCEPT !.sample = @ + 1]
              /\ validated' = IF entry = "rrt_connect"
                               THEN validated \cup CheckedSteps(r, tree1, s, swap')
                               ELSE validated
              /\ grow1' = Recorded(Growth(tree1, s, swap', r))
              /\ grow2' = NoGrow
              /\ samples' = IF entry = "rrt_connect" THEN Append(samples, s)
                                                      ELSE samples
    /\ pc' = "r_connect"
    /\ UNCHANGED <<env, entry, args, iteration, rStart, rMaxTime, bStart, attempt,
                   path, result, smoothArg>>

\* lines 84-92: the second tree grows toward the node just reached; on
\* success the two retraced chains are joined and returned
RrtConnect ==
    /\ pc = "r_connect"
    /\ LET tree1 == IF swap THEN nodes2 ELSE nodes1
           tree2 == IF swap THEN nodes1 ELSE nodes2
           target == tree1[last1].config
           r == extend_towards(tree2, target, ~swap, args.tree_frequency)
           path1 == retrace(tree1, last1)
           path2 == retrace(r.tree, r.last)
       IN  /\ nodes1' = IF swap THEN r.tree ELSE nodes1
           /\ nodes2' = IF swap THEN nodes2 ELSE r.tree
           /\ calls' = Grow(calls, r.extend)
           /\ validated' = IF entry = "rrt_connect"
                            THEN validated \cup CheckedSteps(r, tree2, target, ~swap)
                            ELSE validated
           /\ grow2' = Recorded(Growth(tree2, target, ~swap, r))
           /\ IF r.success
              THEN /\ RrtReturn(PathOf(IF swap THEN Junction(path2, path1)
                                                ELSE Junction(path1, path2)))
                   /\ UNCHANGED iteration
              ELSE /\ iteration' = iteration + 1
                   /\ pc' = "r_loop"
                   /\ UNCHANGED <<path, result>>
    /\ UNCHANGED <<env, entry, args, now, swap, last1, rStart, rMaxTime, bStart,
                   attempt, smoothArg, grow1, samples>>

---------------------------------------------------------------------------
\* birrt (lines 108-160)

\* lines 145-147
BirrtEnter ==
    /\ pc = "b_enter"
    /\ \E t \in Readings(TRUE) :
          /\ now' = t
          /\ bStart' = t
    /\ calls' = [calls EXCEPT !.collision = TRUE]
    /\ IF EndpointBlocked(args.q1, args.q2)
       THEN result' = None /\ pc' = "done"
       ELSE result' = result /\ pc' = "b_direct"
    /\ UNCHANGED <<env, entry, args, nodes1, nodes2, iteration, swap, last1, rStart,
                   rMaxTime, attempt, path, smoothArg, validated,
                   grow1, grow2, samples>>

\* mutant of BirrtDirect: the direct path is not returned
BirrtDirect_Ignored ==
    /\ pc = "b_direct"
    /\ path' = direct_path(args.q1, args.q2)
    /\ calls' = [calls EXCEPT !.collision = TRUE, !.extend = @ + 1]
    /\ pc' = "b_loop"
    /\ attempt' = 0
    /\ UNCHANGED <<env, entry, args, now, nodes1, nodes2, iteration, swap, last1,
                   rStart, rMaxTime, bStart, result, smoothArg, validated,
                   grow1, grow2, samples>>

\* lines 148-150
BirrtDirect ==
    /\ pc = "b_direct"
    /\ path' = direct_path(args.q1, args.q2)
    /\ calls' = [calls EXCEPT !.collision = TRUE, !.extend = @ + 1]
    /\ IF path' # None
       THEN result' = path' /\ pc' = "done"
       ELSE result' = result /\ pc' = "b_loop"
    /\ attempt' = 0
    /\ UNCHANGED <<env, entry, args, now, nodes1, nodes2, iteration, swap, last1,
                   rStart, rMaxTime, bStart, smoothArg, validated,
                   grow1, grow2, samples>>

\* line 151: irange(restarts + 1) is exhausted; line 160
BirrtExhausted ==
    /\ pc = "b_loop"
    /\ attempt >= args.restarts + 1
    /\ result' = None
    /\ pc' = "done"
    /\ UNCHANGED <<env, entry, args, now, nodes1, nodes2, iteration, swap, last1,
                   rStart, rMaxTime, bStart, attempt, path, calls, smoothArg, validated,
                   grow1, grow2, samples>>

\* lines 152-153: the global deadline has passed; line 160
BirrtTimeout ==
    /\ pc = "b_loop"
    /\ attempt < args.restarts + 1
    /\ \E t \in Readings(FALSE) :
          /\ Expired(args.max_time, bStart, t)
          /\ now' = t
    /\ result' = None
    /\ pc' = "done"
    /\ UNCHANGED <<env, entry, args, nodes1, nodes2, iteration, swap, last1,
                   rStart, rMaxTime, bStart, attempt, path, calls, smoothArg, validated,
                   grow1, grow2, samples>>

\* lines 152-153: the global deadline has not passed
BirrtCheck ==
    /\ pc = "b_loop"
    /\ attempt < args.restarts + 1
    /\ \E t \in Readings(FALSE) :
          /\ ~Expired(args.max_time, bStart, t)
          /\ now' = t
    /\ pc' = "b_call"
    /\ UNCHANGED <<env, entry, args, nodes1, nodes2, iteration, swap, last1, rStart,
                   rMaxTime, bStart, attempt, path, result, calls, smoothArg, validated,
                   grow1, grow2, samples>>

\* mutant of BirrtCall: every restart gets the whole budget
BirrtCall_WholeBudget ==
    /\ pc = "b_call"
    /\ \E t \in Readings(FALSE) : now' = t
    /\ rMaxTime' = args.max_time
    /\ calls' = [calls EXCEPT !.rrt_connect = @ + 1]
    /\ pc' = "r_enter"
    /\ UNCHANGED <<env, entry, args, nodes1, nodes2, iteration, swap, last1, rStart,
                   bStart, attempt, path, result, smoothArg, validated,
                   grow1, grow2, samples>>

\* lines 154-155: rrt_connect is called with the remaining budget
BirrtCall ==
    /\ pc = "b_call"
    /\ \E t \in Readings(FALSE) :
          /\ now' = t
          /\ rMaxTime' = Remaining(args.max_time, bStart, t)
    /\ calls' = [calls EXCEPT !.rrt_connect = @ + 1]
    /\ pc' = "r_enter"
    /\ UNCHANGED <<env, entry, args, nodes1, nodes2, iteration, swap, last1, rStart,
                   bStart, attempt, path, result, smoothArg, validated,
                   grow1, grow2, samples>>

\* mutant of BirrtAfter: the path found is returned as it is
BirrtAfter_Raw ==
    /\ pc = "b_after"
    /\ IF path # None
       THEN pc' = "done" /\ result' = path /\ attempt' = attempt
       ELSE pc' = "b_loop" /\ result' = result /\ attempt' = attempt + 1
    /\ UNCHANGED <<env, entry, args, now, nodes1, nodes2, iteration, swap, last1,
                   rStart, rMaxTime, bStart, path, calls, smoothArg, validated,
                   grow1, grow2, samples>>

\* lines 156-159, and the step of the loop of line 151
BirrtAfter ==
    /\ pc = "b_after"
    /\ IF path # None
       THEN /\ pc' = "done"
            /\ IF ~args.smooth
               THEN /\ result' = path
                    /\ UNCHANGED <<calls, smoothArg>>
               ELSE /\ \E p \in smooth_path(path.path) : result' = PathOf(p)
                    /\ smoothArg' = path.path
                    /\ calls' = [calls EXCEPT !.smooth = @ + 1]
            /\ UNCHANGED attempt
       ELSE /\ attempt' = attempt + 1
            /\ pc' = "b_loop"
            /\ UNCHANGED <<result, calls, smoothArg>>
    /\ UNCHANGED <<env, entry, args, now, nodes1, nodes2, iteration, swap, last1,
                   rStart, rMaxTime, bStart, path, validated,
                   grow1, grow2, samples>>

---------------------------------------------------------------------------
Next ==
    \/ DirectPath
    \/ RrtEnter
    \/ RrtExhausted
    \/ RrtTimeout
    \/ RrtExplore
    \/ RrtConnect
    \/ BirrtEnter
    \/ BirrtDirect
    \/ BirrtExhausted
    \/ BirrtTimeout
    \/ BirrtCheck
    \/ BirrtCall
    \/ BirrtAfter

Spec == Init /\ [][Next]_vars

---------------------------------------------------------------------------
\* Properties

Returned(e) == entry = e /\ pc = "done"
IsPath(v) == v.kind = "path"
Configs(tree) == {tree[i].config : i \in 1..Len(tree)}
Elems(p) == {p[i] : i \in 1..Len(p)}
Free(S) == \A q \in S : ~collision_fn(q)

\* C1 (endpoint preservation): every path returned by rrt_connect begins with
\* start (q1) and ends with goal (q2), whether or not the trees were swapped
\* and also when the exploration returned the root of its tree.
C1_EndpointPreservation ==
    (Returned("rrt_connect") /\ IsPath(result))
        => /\ result.path[1] = args.q1
           /\ result.path[Len(result.path)] = args.q2

\* C2 (validity): every node of both trees, roots included, holds a
\* collision-free configuration, and so does every configuration of a path
\* returned by rrt_connect (to the user or to birrt) or by direct_path.
C2_Validity ==
    /\ Free(Configs(nodes1))
    /\ Free(Configs(nodes2))
    /\ Free(Elems(path.path))
    /\ (entry \in {"rrt_connect", "direct_path"}) => Free(Elems(result.path))

\* C2 witness: rrt_connect has returned a path in a space with obstacles, after
\* an extension was cut short by a collision (a failed connect step).
C2_Witness ==
    /\ Returned("rrt_connect")
    /\ IsPath(result)
    /\ env.blocked # {}
    /\ iteration > 0

\* C3 (continuity): with tree_frequency = 1, every consecutive pair of a path
\* returned by rrt_connect is one step of an extension that the search
\* computed and found collision-free, in the direction of travel.
C3_Continuity ==
    (Returned("rrt_connect") /\ IsPath(result) /\ args.tree_frequency = 1)
        => \A i \in 1..(Len(result.path) - 1) :
              <<result.path[i], result.path[i + 1]>> \in validated

\* C4 (failure on blocked endpoints): if start or goal collides, direct_path,
\* rrt_connect (tree_frequency >= 1) and birrt return None in their first
\* step, with no call of sample_fn or extend_fn and no tree node created.
C4_BlockedEndpoints ==
    ((collision_fn(args.q1) \/ collision_fn(args.q2)) /\ args.tree_frequency >= 1)
        => /\ pc \in {EntryPc(entry), "done"}
           /\ pc = "done" => result = None
           /\ calls.sample = 0
           /\ calls.extend = 0
           /\ nodes1 = <<>>
           /\ nodes2 = <<>>

\* C4 witness: birrt has returned with a free start and a colliding goal.
C4_Witness ==
    /\ Returned("birrt")
    /\ ~collision_fn(args.q1)
    /\ collision_fn(args.q2)

\* C5 (direct_path): direct_path returns [start] + extend_fn(start, goal) when
\* start, goal and the whole extension are collision-free and None in every
\* other case; in the scenario ([4,6] blocked, unit steps) direct_path(0, 10)
\* returns None.
C5_DirectPath ==
    Returned("direct_path")
        => /\ result = IF Free({args.q1, args.q2} \cup Elems(extend_fn(args.q1, args.q2)))
                       THEN PathOf(<<args.q1>> \o extend_fn(args.q1, args.q2))
                       ELSE None
           /\ env = ScenarioEnv => result = None

\* C5 witness: direct_path has returned a path of several steps past an
\* obstacle-free stretch of a space that has obstacles.
C5_Witness ==
    /\ Returned("direct_path")
    /\ IsPath(result)
    /\ Len(result.path) >= 3
    /\ env.blocked # {}

\* C6 as stated (scenario): rrt_connect(0, 10) with [4,6] blocked, unit steps
\* and samples 2, 8, 3, 7 returns a path from 0 to 10 that avoids [4,6].
C6_ScenarioFindsPath ==
    (env = ScenarioEnv /\ Returned("rrt_connect"))
        => /\ IsPath(result)
           /\ result.path[1] = 0
           /\ result.path[Len(result.path)] = 10
           /\ Elems(result.path) \cap (4..6) = {}

\* C6 as amended (scenario): no unit-step route from 0 to 10 avoids [4,6], so
\* the search never connects: the start tree stays within [0,3], the goal tree
\* within [7,10], and rrt_connect returns None.
C6_ScenarioNoPath ==
    (env = ScenarioEnv /\ entry = "rrt_connect")
        => /\ Configs(nodes1) \subseteq 0..3
           /\ Configs(nodes2) \subseteq 7..10
           /\ pc = "done" => result = None

\* C6 witness: the scenario search has run all its iterations and returned.
C6_Witness ==
    /\ env = ScenarioEnv
    /\ Returned("rrt_connect")
    /\ iteration = ScenarioIterations
    /\ calls.sample = ScenarioIterations

\* C7 (orchestrator shortcut): when direct_path(start, goal) yields a path,
\* birrt returns it without ever invoking rrt_connect, sample_fn or
\* distance_fn, whatever restarts and max_time are.
C7_Shortcut ==
    (entry = "birrt" /\ IsPath(direct_path(args.q1, args.q2)))
        => /\ pc \in {"b_enter", "b_direct", "done"}
           /\ calls.rrt_connect = 0
           /\ calls.sample = 0
           /\ ~calls.distance
           /\ pc = "done" => result = direct_path(args.q1, args.q2)

\* C7 witness: birrt has returned the direct path with no time budget and
\* restarts allowed.
C7_Witness ==
    /\ Returned("birrt")
    /\ IsPath(result)
    /\ args.max_time = 0
    /\ args.restarts > 0

\* C8 as stated (smoothing hand-off): whenever birrt finds a path, by the
\* search or by the direct shortcut, and smoothing is enabled, the path is
\* handed to smooth_path exactly once and its result is returned; the raw path
\* is returned only when smoothing is disabled.
C8_SmoothingAlways ==
    (Returned("birrt") /\ IsPath(path))
        => IF args.smooth
           THEN /\ calls.smooth = 1
                /\ smoothArg = path.path
                /\ IsPath(result)
                /\ result.path \in smooth_path(path.path)
           ELSE /\ calls.smooth = 0
                /\ result = path

\* C8 as amended: a path found by rrt_connect is handed to smooth_path exactly
\* once when smoothing is enabled and the collaborator's result is returned;
\* the raw path is returned when smoothing is disabled, and also, with or
\* without smoothing, when the path comes from the direct shortcut.
C8_SmoothingAfterSearch ==
    /\ calls.smooth <= 1
    /\ (Returned("birrt") /\ IsPath(path))
        => IF args.smooth /\ calls.rrt_connect > 0
           THEN /\ calls.smooth = 1
                /\ smoothArg = path.path
                /\ IsPath(result)
                /\ result.path \in smooth_path(path.path)
           ELSE /\ calls.smooth = 0
                /\ result = path

\* C8 witness: birrt has returned a smoothed path found by a search.
C8_Witness ==
    /\ Returned("birrt")
    /\ args.smooth
    /\ calls.rrt_connect > 0
    /\ IsPath(result)
    /\ result # path

\* C9 (restart policy): after a failed shortcut birrt invokes rrt_connect at
\* most restarts + 1 times; the deadline is checked before each invocation;
\* each gets max_time minus the time elapsed; each starts from two fresh
\* single-node trees rooted at start and goal; the first invocation that
\* returns a path ends the loop; None is returned if every invocation returned
\* None or the deadline passed.
C9_RestartPolicy ==
    entry = "birrt"
        => /\ calls.rrt_connect <= args.restarts + 1
           /\ calls.rrt_connect \in {attempt, attempt + 1}
           /\ pc \in {"b_loop", "b_call"} => (calls.rrt_connect = attempt /\ path = None)
           /\ pc = "b_call" => ~Expired(args.max_time, bStart, now)
           /\ pc = "r_enter" => rMaxTime = Remaining(args.max_time, bStart, now)
           /\ (pc = "r_loop" /\ iteration = 0)
                 => /\ nodes1 = <<TreeNode(args.q1, 0)>>
                    /\ nodes2 = <<TreeNode(args.q2, 0)>>
           /\ (pc = "done" /\ IsPath(path) /\ calls.rrt_connect > 0)
                 => (IsPath(result) /\ calls.rrt_connect = attempt + 1)
           /\ (pc = "done" /\ calls.rrt_connect > 0 /\ result = None)
                 => /\ path = None
                    /\ calls.rrt_connect = attempt
                    /\ \/ attempt = args.restarts + 1
                       \/ Expired(args.max_time, bStart, now)

\* C9 witness: a restart (the second invocation) has begun with fresh trees
\* and with less than the whole budget.
C9_Witness ==
    /\ entry = "birrt"
    /\ attempt = 1
    /\ pc = "r_loop"
    /\ iteration = 0
    /\ rMaxTime < args.max_time

\* C10 (time budget): with max_time = 0 rrt_connect calls none of sample_fn,
\* extend_fn and distance_fn, grows no tree and returns None; birrt with
\* max_time = 0 never invokes rrt_connect and returns None unless the direct
\* shortcut gave a path, which it then returns.
C10_ZeroBudget ==
    /\ (entry = "rrt_connect" /\ args.max_time = 0 /\ args.tree_frequency >= 1)
          => /\ calls.sample = 0
             /\ calls.extend = 0
             /\ ~calls.distance
             /\ Len(nodes1) <= 1
             /\ Len(nodes2) <= 1
             /\ pc = "done" => result = None
    /\ (entry = "birrt" /\ args.max_time = 0)
          => /\ calls.rrt_connect = 0
             /\ calls.sample = 0
             /\ pc = "done" => result = IF IsPath(direct_path(args.q1, args.q2))
                                        THEN direct_path(args.q1, args.q2)
                                        ELSE None

\* C10 witness: rrt_connect with max_time = 0 passed the endpoint check,
\* entered its loop and returned.
C10_Witness ==
    /\ Returned("rrt_connect")
    /\ args.max_time = 0
    /\ nodes1 # <<>>

---------------------------------------------------------------------------
\* A measure of the work one call of rrt_connect has left: every step of the
\* call makes it smaller.
RrtRank ==
    CASE pc = "r_enter" -> 2 * args.iterations + 2
      [] pc = "r_loop" -> 2 * (args.iterations - iteration) + 1
      [] pc = "r_connect" -> 2 * (args.iterations - iteration)
      [] OTHER -> 0

\* C11: one call of rrt_connect runs at most `iterations` iterations, hence
\* calls sample_fn at most `iterations` times and extend_towards at most
\* 2 * iterations times; an iteration's body runs only after a deadline check
\* that passed; the call terminates (every step it takes lowers a
\* non-negative measure, which is 0 only once it has returned); and a call
\* that ends without the trees connected returns None.
C11_BoundedSearch ==
    /\ [](/\ iteration <= args.iterations
          /\ entry = "rrt_connect" =>
                /\ calls.sample <= args.iterations
                /\ calls.extend <= 2 * args.iterations
                /\ calls.sample = iteration + (IF pc = "r_connect" \/ IsPath(result) THEN 1 ELSE 0)
                /\ RrtRank >= 0
                /\ RrtRank = 0 <=> pc = "done"
                /\ pc = "done" /\ args.tree_frequency >= 1 /\ ~IsPath(result) => result = None
          /\ pc = "r_connect" => ~Expired(rMaxTime, rStart, now))
    /\ [][entry = "rrt_connect" => RrtRank' < RrtRank]_vars

\* the loop ran out of iterations, and elsewhere out of time, and None came back
C11_Witness ==
    /\ entry = "rrt_connect"
    /\ pc = "done"
    /\ result = None
    /\ iteration = args.iterations
    /\ calls.sample = args.iterations
    /\ calls.extend = 2 * args.iterations
    /\ args.max_time = INF

---------------------------------------------------------------------------
\* The two trees in the roles of the latest iteration (lines 78-80).
Tree1 == IF swap THEN nodes2 ELSE nodes1
Tree2 == IF swap THEN nodes1 ELSE nodes2

\* An iteration of a call made by the user has run both of its growth steps.
IterationRan == entry = "rrt_connect" /\ grow1.near # 0 /\ grow2.near # 0

Max(a, b) == IF a >= b THEN a ELSE b

\* the sizes of the two trees at the start of the latest iteration, the
\* nodes its two growth steps added, and the difference of the sizes after it
SizeBefore1 == Len(grow1.tree)
SizeBefore2 == Len(grow2.tree)
Added1 == Len(Tree1) - SizeBefore1
Added2 == Len(Tree2) - SizeBefore2
SizeGap == Abs(Len(nodes1) - Len(nodes2))

\* C12 as stated: after every iteration the difference of the sizes of the
\* two trees is at most the number of nodes the iteration added (to either
\* tree, which is no less than what its latest growth step added).
C12_GapWithinGrowth ==
    IterationRan => SizeGap <= Added1 + Added2

\* C12, amended: the exploration grows a tree that had no more nodes than the
\* other at the start of the iteration and the connect step grows the other
\* tree, neither step removes a node, and after the iteration the difference
\* of the sizes is at most the larger of (difference at the start + nodes the
\* connect step added) and (nodes the exploration added).
C12_SmallerTreeExplores ==
    IterationRan =>
        /\ SizeBefore1 <= SizeBefore2
        /\ Added1 >= 0
        /\ Added2 >= 0
        /\ SizeGap <= Max((SizeBefore2 - SizeBefore1) + Added2, Added1)

\* the second iteration starts with trees of different sizes and ends with a
\* difference larger than the number of nodes it added
C12_Witness ==
    /\ IterationRan
    /\ iteration = 2
    /\ SizeBefore1 < SizeBefore2
    /\ SizeGap > Added1 + Added2

---------------------------------------------------------------------------
\* C13: a call of rrt_connect or birrt with tree_frequency < 1 has called
\* none of collision_fn, extend_fn and sample_fn, and when it ends it ends
\* with the AssertionError, never with a path or None.
C13_EagerRejection ==
    (entry \in {"rrt_connect", "birrt"} /\ args.tree_frequency < 1) =>
        /\ ~calls.collision
        /\ calls.extend = 0
        /\ calls.sample = 0
        /\ pc = "done" => result = AssertionError

---------------------------------------------------------------------------
\* The chains retraced at lines 87-90 from the two nodes that met, after the
\* exchange of lines 89-90: the chain of the start tree, the chain of the
\* goal tree.
StartChain == retrace(nodes1, IF swap THEN grow2.last ELSE last1)
GoalChain == retrace(nodes2, IF swap THEN last1 ELSE grow2.last)

\* C15: a path returned by rrt_connect is the chain of the start tree without
\* its last configuration followed by the reversed chain of the goal tree;
\* the configuration dropped is the one the reversed goal chain begins with;
\* so every configuration of the two chains occurs in the path -- in swapped
\* and in non-swapped iterations.
C15_Junction ==
    (Returned("rrt_connect") /\ IsPath(result)) =>
        /\ result.path = SubSeq(StartChain, 1, Len(StartChain) - 1) \o Reverse(GoalChain)
        /\ StartChain[Len(StartChain)] = GoalChain[Len(GoalChain)]
        /\ Elems(StartChain) \cup Elems(GoalChain) \subseteq Elems(result.path)

---------------------------------------------------------------------------
\* The recorded calls of extend_towards, each with the tree as the call left
\* it: the exploration works on tree1 and the connect step on tree2, and
\* neither tree is touched again before the next exploration.
GrowthCalls ==
    {c \in {[call |-> grow1, after |-> Tree1], [call |-> grow2, after |-> Tree2]} :
        c.call.near # 0}

\* node `near` of the tree is a nearest one to the target
Nearest(tree, near, target) ==
    /\ near \in 1..Len(tree)
    /\ \A j \in 1..Len(tree) :
          distance_fn(tree[near].config, target) <= distance_fn(tree[j].config, target)

\* C16 as stated: a call of extend_towards that finds no safe configuration
\* appends nothing, returns the nearest node and returns success = false,
\* whatever the extension, an empty one included.
C16_BlockedGuarantee ==
    \A c \in GrowthCalls :
        c.call.safe = <<>> =>
            /\ c.after = c.call.tree
            /\ c.call.last = c.call.near
            /\ Nearest(c.call.tree, c.call.near, c.call.target)
            /\ ~c.call.success

\* C16, amended: a call of extend_towards that finds no safe configuration
\* appends nothing and returns the nearest node; it returns success = false
\* when the extension is not empty (its first configuration collides) and
\* success = true when the extension itself is empty.
C16_BlockedOrArrived ==
    \A c \in GrowthCalls :
        c.call.safe = <<>> =>
            /\ c.after = c.call.tree
            /\ c.call.last = c.call.near
            /\ Nearest(c.call.tree, c.call.near, c.call.target)
            /\ c.call.success <=> (c.call.extend = <<>>)

\* an exploration blocked at its first configuration, followed by a connect
\* step whose target is the configuration of the nearest node
C16_Witness ==
    /\ entry = "rrt_connect"
    /\ grow1.near # 0 /\ grow1.safe = <<>> /\ grow1.extend # <<>> /\ ~grow1.success
    /\ grow2.near # 0 /\ grow2.extend = <<>> /\ grow2.success
    /\ grow2.target = grow2.tree[grow2.near].config

---------------------------------------------------------------------------
\* C17: in every call of extend_towards, forward or backward, the sequence
\* asymmetric_extend(from, to, ...) (from = the nearest node's configuration,
\* to = the target) does not contain `from` and, unless empty, ends with
\* `to`; in the backward case it is the reverse of extend_fn(to, from); and
\* no node the call appends has the configuration of the nearest node.
C17_DirectionalExtension ==
    \A c \in GrowthCalls :
        LET from == c.call.tree[c.call.near].config
            to == c.call.target
            extend == c.call.extend
        IN  /\ from \notin Elems(extend)
            /\ extend # <<>> => extend[Len(extend)] = to
            /\ c.call.backward => extend = Reverse(extend_fn(to, from))
            /\ \A i \in (Len(c.call.tree) + 1)..Len(c.after) : c.after[i].config # from

---------------------------------------------------------------------------
IsPrefix(s, t) == Len(s) <= Len(t) /\ SubSeq(t, 1, Len(s)) = s

\* the tree has the given root, without a parent, as its first element; the
\* parent of every other node is an earlier element; and following the
\* parents from any node ends at the root within as many steps as the
\* node's index
WellFormed(tree, root) ==
    /\ tree[1] = TreeNode(root, 0)
    /\ \A i \in 2..Len(tree) : tree[i].parent \in 1..(i - 1)
    /\ \A i \in 1..Len(tree) :
          /\ retrace(tree, i)[1] = root
          /\ Len(retrace(tree, i)) <= i

\* C18: in every state of a call of rrt_connect the tree of the start is
\* rooted at q1 and the tree of the goal at q2, each well-formed; and every
\* step of the call leaves the nodes a tree already has in place, adding new
\* ones at its end only.
C18_TreeStructure ==
    /\ [](pc \in {"r_loop", "r_connect"} \/ Len(nodes1) > 0 =>
              /\ WellFormed(nodes1, args.q1)
              /\ WellFormed(nodes2, args.q2))
    /\ [][(pc = "r_loop" \/ pc = "r_connect") =>
              (IsPrefix(nodes1, nodes1') /\ IsPrefix(nodes2, nodes2'))]_vars

\* both trees have a node whose parent is not the root
C18_Witness ==
    /\ pc \in {"r_loop", "r_connect"}
    /\ \E i \in 1..Len(nodes1) : nodes1[i].parent > 1
    /\ \E i \in 1..Len(nodes2) : nodes2[i].parent > 1

---------------------------------------------------------------------------
\* the indices (from 0) of a safe prefix of length n that get a node
Subsampled(n, f) == {i \in 0..(n - 1) : i % f = 0 \/ i = n - 1}

\* the j-th smallest element of a set of numbers
Nth(S, j) == CHOOSE i \in S : Cardinality({m \in S : m < i}) = j - 1

---------------------------------------------------------------------------
\* tree2 as it was at the start of the latest iteration: the exploration
\* does not touch it
Tree2Before == IF grow2.near # 0 THEN grow2.tree ELSE Tree2

\* C20: in every iteration the exploration grows, toward the sample, a tree
\* with no more nodes than the other at the start of the iteration -- the
\* start tree (nodes1) unless it is strictly the larger; the connect step
\* grows the other tree; the start tree is grown forward and the goal tree
\* backward; and the connect step's target is the configuration of the node
\* the exploration returned.
C20_RoleAssignment ==
    (entry = "rrt_connect" /\ grow1.near # 0) =>
        /\ Len(grow1.tree) <= Len(Tree2Before)
        /\ Len(grow1.tree) = Len(Tree2Before) => ~swap
        /\ IsPrefix(grow1.tree, IF swap THEN nodes2 ELSE nodes1)
        /\ grow1.tree[1].config = (IF swap THEN args.q2 ELSE args.q1)
        /\ grow1.backward <=> swap
        /\ grow1.last = last1
        /\ grow2.near # 0 =>
              /\ IsPrefix(grow2.tree, IF swap THEN nodes1 ELSE nodes2)
              /\ grow2.tree[1].config = (IF swap THEN args.q1 ELSE args.q2)
              /\ grow2.backward <=> ~swap
              /\ grow2.target = Tree1[last1].config

\* a swapped iteration has run: the goal tree was the smaller and explored
\* backward, the start tree made the connect step forward
C20_Witness ==
    /\ IterationRan
    /\ swap
    /\ Len(grow1.tree) < Len(grow2.tree)
    /\ grow1.backward
    /\ ~grow2.backward
    /\ grow2.target = nodes2[last1].config

---------------------------------------------------------------------------
\* What the loop of rrt_connect (lines 74-93) returns from the trees t1, t2
\* when it is given the samples sigma[i], sigma[i + 1], ... and no clock: the
\* path of the first iteration that connects the trees, None when the
\* samples are used up.
RECURSIVE Replay(_, _, _, _)
Replay(t1, t2, i, sigma) ==
    IF i > Len(sigma)
    THEN None
    ELSE LET sw == Swap(Len(t1), Len(t2))
             r1 == extend_towards(IF sw THEN t2 ELSE t1, sigma[i], sw, args.tree_frequency)
             r2 == extend_towards(IF sw THEN t1 ELSE t2, r1.tree[r1.last].config, ~sw,
                                  args.tree_frequency)
             path1 == retrace(r1.tree, r1.last)
             path2 == retrace(r2.tree, r2.last)
         IN  IF r2.success
             THEN PathOf(IF sw THEN Junction(path2, path1) ELSE Junction(path1, path2))
             ELSE Replay(IF sw THEN r2.tree ELSE r1.tree, IF sw THEN r1.tree ELSE r2.tree,
                         i + 1, sigma)

\* what rrt_connect returns on the samples sigma when no deadline stops it
Reference(sigma) ==
    IF args.tree_frequency < 1 THEN AssertionError
    ELSE IF collision_fn(args.q1) \/ collision_fn(args.q2) THEN None
    ELSE Replay(<<TreeNode(args.q1, 0)>>, <<TreeNode(args.q2, 0)>>, 1, sigma)

\* the sequences of n values that sample_fn may return after the samples
\* already drawn
Continuations(n) ==
    IF env.cyclic
    THEN {[k \in 1..n |-> SampleCycle[((Len(samples) + k - 1) % Len(SampleCycle)) + 1]]}
    ELSE [1..n -> 0..env.hi]

\* the samples a call that is not stopped would draw: at most `iterations`
Remainders ==
    IF Len(samples) >= args.iterations THEN {<<>>}
    ELSE Continuations(args.iterations - Len(samples))

\* C14 as stated: whatever the clock readings, a call of rrt_connect returns
\* what the call returns that gets the same sequence of samples and is not
\* stopped by the deadline.
C14_Deterministic ==
    Returned("rrt_connect") =>
        \A tau \in Remainders : result = Reference(samples \o tau)

\* C14, amended: what rrt_connect returns is determined by its parameters and
\* the samples it has drawn; it draws samples until the trees connect and,
\* without a deadline (max_time = INF), no fewer than that or than
\* `iterations`; so without a deadline two calls on the same sequence return
\* the same result, and with a deadline each returns that result or None.
C14_DeterministicWithoutDeadline ==
    Returned("rrt_connect") =>
        /\ result = Reference(samples)
        /\ \A k \in 0..(Len(samples) - 1) : ~IsPath(Reference(SubSeq(samples, 1, k)))
        /\ args.max_time = INF =>
              \A tau \in Remainders : result = Reference(samples \o tau)
        /\ \A tau \in Remainders :
              result = None \/ result = Reference(samples \o tau)

\* a call with a deadline drew one sample and returned None at the deadline,
\* and one more sample would have connected the trees
C14_Witness ==
    /\ Returned("rrt_connect")
    /\ args.max_time = MaxClock
    /\ result = None
    /\ Len(samples) = 1
    /\ Len(samples) < args.iterations
    /\ \E s \in 0..env.hi : IsPath(Reference(Append(samples, s)))

=============================================================================
